---- MODULE Spec2Model ----
(***************************************************************************)
(* KJUR.crypto.DSA (dsa-2.0.js): DSA signing and verification over a key   *)
(* object with fields p, q, g, y, x.  Hexadecimal strings are sequences of *)
(* hex digits 0..15; BigIntegers are integers; null is Null.               *)
(***************************************************************************)
EXTENDS Integers, Sequences, FiniteSets, TLC

VARIABLES p, q, g, y, x, isPrivate, isPublic,
          op, sHashHex, hSigVal, sigKind, fresh, k, r, s, z, outcome, outSig, outRS

vars == <<p, q, g, y, x, isPrivate, isPublic,
          op, sHashHex, hSigVal, sigKind, fresh, k, r, s, z, outcome, outSig, outRS>>

\* ------------------------------------------------------------------ bounds
\* longest digest, in hex digits
MaxDigestLen == 2
\* largest consecutive integer fed to the signature codec
CodecMax == 130

\* ------------------------------------------------------- values and inputs
\* null, the initial value of every key field
Null == 0 - 1
\* the value of a property the constructor never assigns
Undefined == "undefined"
True == "true"

\* domain parameters <<p, q, g>>: q prime, q | p-1, g of order q modulo p
Params == { <<7, 3, 2>>, <<53, 13, 16>>, <<103, 17, 64>> }

\* hex digits the digests are made of
DigestDigits == {7, 12}

RECURSIVE HexStrings(_, _)
HexStrings(D, n) ==
  IF n = 0 THEN { <<>> }
  ELSE LET shorter == HexStrings(D, n - 1)
       IN  shorter \cup { Append(h, d) : h \in { t \in shorter : Len(t) = n - 1 }, d \in D }

Digests == HexStrings(DigestDigits, MaxDigestLen)

Min(a, b) == IF a < b THEN a ELSE b
Max(a, b) == IF a < b THEN b ELSE a

\* ------------------------------------------------------------- BigInteger
RECURSIVE Pow2(_)
Pow2(n) == IF n = 0 THEN 1 ELSE 2 * Pow2(n - 1)

\* BigInteger.bitLength for a non-negative value
RECURSIVE bitLength(_)
bitLength(n) == IF n = 0 THEN 0 ELSE 1 + bitLength(n \div 2)

\* BigInteger.modPow
RECURSIVE modPow(_, _, _)
modPow(b, e, m) == IF e = 0 THEN 1 ELSE (b * modPow(b, e - 1, m)) % m

\* BigInteger.modInverse on a non-zero value: the inverse, or ZERO when there is none
modInverse(a, m) ==
  IF \E w \in 1..(m - 1) : (a * w) % m = 1
  THEN CHOOSE w \in 1..(m - 1) : (a * w) % m = 1
  ELSE 0

\* BigInteger.modInverse on ZERO with an odd modulus: the binary gcd loop halves
\* an even value that stays zero, and the call does not return
modInverseDiverges(a, m) == a = 0 /\ m % 2 = 1

\* BigInteger.toString(16) for a non-negative value
RECURSIVE toString16(_)
toString16(n) == IF n < 16 THEN <<n>> ELSE Append(toString16(n \div 16), n % 16)

\* new BigInteger(h, 16): the digits read as an unsigned magnitude, "" is 0
RECURSIVE parseBigInt16(_)
parseBigInt16(h) ==
  IF h = <<>> THEN 0 ELSE 16 * parseBigInt16(SubSeq(h, 1, Len(h) - 1)) + h[Len(h)]

\* ---------------------------------------------------------------- strings
\* String.prototype.substring(a, b): bounds clamped to the string and swapped
substring(h, a, b) ==
  LET ca == Max(0, Min(a, Len(h)))
      cb == Max(0, Min(b, Len(h)))
  IN  SubSeq(h, Min(ca, cb) + 1, Max(ca, cb))

\* String.prototype.substr(start, length) with start >= 0
substr(h, start, length) ==
  IF length <= 0 THEN <<>> ELSE SubSeq(h, start + 1, Min(start + length, Len(h)))

\* ------------------------------------------------- KJUR.asn1 (the encoder)
T02 == <<0, 2>>
T30 == <<3, 0>>

\* ASN1Util.bigIntToMinTwosComplementsHex for a non-negative value: even number
\* of digits, and 00 in front when the first digit has its high bit set
bigIntToMinTwosComplementsHex(n) ==
  LET h == toString16(n)
  IN  IF Len(h) % 2 = 1 THEN <<0>> \o h
      ELSE IF h[1] >= 8 THEN <<0, 0>> \o h
      ELSE h

\* ASN1Object.getLengthHexFromValue
getLengthHexFromValue(hV) ==
  LET n  == Len(hV) \div 2
      h0 == toString16(n)
      hN == IF Len(h0) % 2 = 1 THEN <<0>> \o h0 ELSE h0
  IN  IF n < 128 THEN hN ELSE toString16(128 + Len(hN) \div 2) \o hN

\* ASN1Object.getEncodedHex: tag, length, value
getEncodedHex(hT, hV) == hT \o getLengthHexFromValue(hV) \o hV

\* DERInteger of a bigint
DERInteger(n) == getEncodedHex(T02, bigIntToMinTwosComplementsHex(n))

RECURSIVE Concat(_)
Concat(items) == IF items = <<>> THEN <<>> ELSE Head(items) \o Concat(Tail(items))

\* DERSequence of already encoded items
DERSequence(items) == getEncodedHex(T30, Concat(items))

\* ------------------------------------------------- ASN1HEX (the navigator)
\* parseInt of one character: a decimal digit, or NaN (here Null)
parseInt(c) == IF c # <<>> /\ c[1] <= 9 THEN c[1] ELSE Null

\* getByteLengthOfL_AtObj once the first length digit is '8': i is the second
ByteLengthOfLongL(i) ==
  IF i = 0 THEN 0 - 1
  ELSE IF 0 < i /\ i < 10 THEN i + 1
  ELSE 0 - 2

getByteLengthOfL_AtObj(h, pos) ==
  IF substring(h, pos + 2, pos + 3) # <<8>> THEN 1
  ELSE ByteLengthOfLongL(parseInt(substring(h, pos + 3, pos + 4)))

\* getHexOfL_AtObj, len being getByteLengthOfL_AtObj(h, pos)
HexOfL(h, pos, len) ==
  IF len < 1 THEN <<>> ELSE substring(h, pos + 2, pos + 2 + len * 2)

getHexOfL_AtObj(h, pos) == HexOfL(h, pos, getByteLengthOfL_AtObj(h, pos))

\* getIntOfL_AtObj, hLength being getHexOfL_AtObj(h, pos)
IntOfL(hLength) ==
  IF hLength = <<>> THEN 0 - 1
  ELSE IF hLength[1] = 8 THEN parseBigInt16(substring(hLength, 2, Len(hLength)))
  ELSE parseBigInt16(hLength)

getIntOfL_AtObj(h, pos) == IntOfL(getHexOfL_AtObj(h, pos))

\* getStartPosOfV_AtObj, l_len being getByteLengthOfL_AtObj(h, pos)
StartPosOfV(pos, l_len) == IF l_len < 0 THEN l_len ELSE pos + (l_len + 1) * 2

getStartPosOfV_AtObj(h, pos) == StartPosOfV(pos, getByteLengthOfL_AtObj(h, pos))

getHexOfV_AtObj(h, pos) ==
  substring(h, getStartPosOfV_AtObj(h, pos),
               getStartPosOfV_AtObj(h, pos) + getIntOfL_AtObj(h, pos) * 2)

getPosOfNextSibling_AtObj(h, pos) ==
  getStartPosOfV_AtObj(h, pos) + getIntOfL_AtObj(h, pos) * 2

\* the loop of getPosArrayOfChildren_AtObj, which gives up after 200 children;
\* ChildrenStep is one turn of it, pNext being the next sibling's position
RECURSIVE ChildrenLoop(_, _, _, _, _, _)
ChildrenStep(h, p0, len, a, n, pNext) ==
  IF pNext - p0 >= len * 2 \/ n >= 200 THEN a
  ELSE ChildrenLoop(h, p0, len, pNext, Append(a, pNext), n + 1)

ChildrenLoop(h, p0, len, pos, a, n) ==
  ChildrenStep(h, p0, len, a, n, getPosOfNextSibling_AtObj(h, pos))

\* getPosArrayOfChildren_AtObj from the first child's position on
ChildrenFrom(h, p0, len) == ChildrenLoop(h, p0, len, p0, <<p0>>, 0)

getPosArrayOfChildren_AtObj(h, pos) ==
  ChildrenFrom(h, getStartPosOfV_AtObj(h, pos), getIntOfL_AtObj(h, pos))

Thrown == [thrown |-> TRUE, v |-> <<>>]

\* getVbyList at the object found: its tag is checked, its value returned
VbyIndex(h, idx, checkingTag) ==
  IF substr(h, idx, 2) # checkingTag THEN Thrown
  ELSE [thrown |-> FALSE, v |-> getHexOfV_AtObj(h, idx)]

\* getVbyList, a being the positions of the children
VbyChildren(h, a, nth, checkingTag) ==
  IF nth + 1 > Len(a) THEN Thrown ELSE VbyIndex(h, a[nth + 1], checkingTag)

\* ASN1HEX.getVbyList(h, currentIndex, [nth], checkingTag) for a one-item list:
\* the value of the nth child (0-based), thrown when there is no such child or
\* when its tag is not checkingTag
getVbyList(h, currentIndex, nth, checkingTag) ==
  VbyChildren(h, getPosArrayOfChildren_AtObj(h, currentIndex), nth, checkingTag)

\* ------------------------------------------------------ KJUR.crypto.DSA
Malformed == "throw malformed ASN.1 DSA signature"
Invalid   == "throw invalid DSA signature"
TypeError == "throw TypeError"
Diverges  == "does not return"

\* signWithMessageHash, step 5: the signature as a sequence of two integers
EncodeSignature(rr, ss) == DERSequence(<<DERInteger(rr), DERInteger(ss)>>)

\* parseASN1Signature, v0 and v1 being what the two getVbyList calls gave
SignatureOf(v0, v1) ==
  IF v0.thrown \/ v1.thrown THEN [thrown |-> TRUE, rs |-> <<>>]
  ELSE [thrown |-> FALSE, rs |-> <<parseBigInt16(v0.v), parseBigInt16(v1.v)>>]

\* parseASN1Signature with the two children read in the wrong order
parseASN1Signature_swapped(h) ==
  SignatureOf(getVbyList(h, 0, 1, T02), getVbyList(h, 0, 0, T02))

\* parseASN1Signature: [r, s], or "malformed ASN.1 DSA signature" thrown
parseASN1Signature(h) ==
  SignatureOf(getVbyList(h, 0, 0, T02), getVbyList(h, 0, 1, T02))

\* signWithMessageHash, step 1: the values getRandomBigIntegerMinToMax can return
getRandomBigIntegerMinToMax(biMin, biMax) == biMin..biMax

\* signWithMessageHash, step 1: k is drawn between ONE.add(ONE) and q.subtract(ONE)
DrawK(qq) == getRandomBigIntegerMinToMax(1 + 1, qq - 1)

\* step 2 of signing and of verification: the leading q.bitLength() / 4 hex
\* digits of the digest (substr drops the fraction of its length), as a number
DeriveZ(d, qq) == parseBigInt16(substr(d, 0, bitLength(qq) \div 4))

\* what a call leaves to see: its locals, and what it returned or threw
NoLocals == [k |-> Null, r |-> Null, s |-> Null, z |-> Null,
             outcome |-> "none", outSig |-> <<>>, outRS |-> <<>>]

\* signWithMessageHash, steps 3 to 5, for the k drawn and the z derived
Signature(pp, qq, gg, xx, kk, zz) ==
  LET rr == modPow(gg, kk, pp) % qq
      ss == (modInverse(kk, qq) * (zz + xx * rr)) % qq
  IN  [NoLocals EXCEPT !.k = kk, !.z = zz, !.r = rr, !.s = ss,
                       !.outcome = "return", !.outSig = EncodeSignature(rr, ss)]

\* signWithMessageHash: q.subtract throws on a key never set (before k is drawn,
\* kk is Null), and x.multiply throws on a public key
SignResult(pp, qq, gg, xx, d, kk) ==
  IF qq = Null THEN [NoLocals EXCEPT !.outcome = TypeError]
  ELSE IF xx = Null
  THEN [NoLocals EXCEPT !.k = kk, !.z = DeriveZ(d, qq), !.r = modPow(gg, kk, pp) % qq,
                        !.outcome = TypeError]
  ELSE Signature(pp, qq, gg, xx, kk, DeriveZ(d, qq))

\* verifyWithMessageHash, steps 5 to 8, w being s^-1 mod q
Validate(pp, qq, gg, yy, rr, ss, zz, w) ==
  LET u1 == (zz * w) % qq
      u2 == (rr * w) % qq
      v  == ((modPow(gg, u1, pp) * modPow(yy, u2, pp)) % pp) % qq
  IN  [NoLocals EXCEPT !.r = rr, !.s = ss, !.z = zz,
                       !.outcome = IF v = rr THEN "true" ELSE "false"]

\* verifyWithMessageHash, steps 2 to 4, for the r and s parsed
VerifyRS(pp, qq, gg, yy, rr, ss, zz) ==
  IF 0 > rr \/ rr > qq
  THEN [NoLocals EXCEPT !.r = rr, !.s = ss, !.z = zz, !.outcome = Invalid]
  ELSE IF 0 > ss \/ ss > qq
  THEN [NoLocals EXCEPT !.r = rr, !.s = ss, !.z = zz, !.outcome = Invalid]
  ELSE IF modInverseDiverges(ss, qq)
  THEN [NoLocals EXCEPT !.r = rr, !.s = ss, !.z = zz, !.outcome = Diverges]
  ELSE Validate(pp, qq, gg, yy, rr, ss, zz, modInverse(ss, qq))

\* verifyWithMessageHash, rs being what parseASN1Signature gave: its throw goes
\* to the caller, and q.bitLength throws on a key never set
VerifyParsed(pp, qq, gg, yy, d, rs) ==
  IF rs.thrown THEN [NoLocals EXCEPT !.outcome = Malformed]
  ELSE IF qq = Null
  THEN [NoLocals EXCEPT !.r = rs.rs[1], !.s = rs.rs[2], !.outcome = TypeError]
  ELSE VerifyRS(pp, qq, gg, yy, rs.rs[1], rs.rs[2], DeriveZ(d, qq))

VerifyResult(pp, qq, gg, yy, d, h) ==
  VerifyParsed(pp, qq, gg, yy, d, parseASN1Signature(h))

\* a call of parseASN1Signature, rs being what it gave
ParsedResult(rs) ==
  [NoLocals EXCEPT !.outcome = IF rs.thrown THEN Malformed ELSE "return", !.outRS = rs.rs]

ParseResult(h) == ParsedResult(parseASN1Signature(h))

\* ------------------------------------------------------------------ inputs
\* signature values tried against verification: the ends of (0, q) and beyond
Probe(qq) == IF qq = Null THEN {0, 1} ELSE {0, 1, qq - 1, qq, qq + 1}

Valid == "valid"

\* an integer's encoding under the tag of an octet string
OctetString(n) == getEncodedHex(<<0, 4>>, bigIntToMinTwosComplementsHex(n))

\* the containers below are made from the encoding e of (1, 2)
MalformedFrom(e) ==
  { [kind |-> "empty",          hex |-> <<>>],
    [kind |-> "truncated",      hex |-> SubSeq(e, 1, Len(e) - 2)],
    [kind |-> "truncated",      hex |-> SubSeq(e, 1, 4)],
    [kind |-> "wrongSeqTag",    hex |-> <<3, 1>> \o SubSeq(e, 3, Len(e))],
    [kind |-> "wrongFirstTag",  hex |-> DERSequence(<<OctetString(1), DERInteger(2)>>)],
    [kind |-> "wrongSecondTag", hex |-> DERSequence(<<DERInteger(1), OctetString(2)>>)],
    [kind |-> "oneElement",     hex |-> DERSequence(<<DERInteger(1)>>)],
    [kind |-> "threeElements",  hex |-> DERSequence(<<DERInteger(1), DERInteger(2), DERInteger(3)>>)],
    [kind |-> "trailingData",   hex |-> e \o <<0, 0>>] }

\* containers that are not a sequence of exactly two integers
MalformedContainers == MalformedFrom(EncodeSignature(1, 2))

ValidContainers(qq) ==
  { [kind |-> Valid, hex |-> EncodeSignature(a, b)] : a \in Probe(qq), b \in Probe(qq) }

Containers(qq) == ValidContainers(qq) \cup MalformedContainers

\* private keys: x in (0, q) and y = g^x mod p
PrivateKeys ==
  UNION { { <<d[1], d[2], d[3], modPow(d[3], xx, d[1]), xx>> : xx \in 1..(d[2] - 1) }
          : d \in Params }

\* ------------------------------------------------------------- the object
\* new KJUR.crypto.DSA(): every key field null, isPrivate and isPublic unassigned
Init ==
  /\ p = Null /\ q = Null /\ g = Null /\ y = Null /\ x = Null
  /\ isPrivate = Undefined /\ isPublic = Undefined
  /\ op = "new"
  /\ sHashHex = <<>> /\ hSigVal = <<>> /\ sigKind = "none" /\ fresh = FALSE
  /\ k = Null /\ r = Null /\ s = Null /\ z = Null
  /\ outcome = "none" /\ outSig = <<>> /\ outRS = <<>>

\* the call made, its arguments and what it left to see
Report(name, d, h, kind, own, res) ==
  /\ op' = name
  /\ sHashHex' = d /\ hSigVal' = h /\ sigKind' = kind /\ fresh' = own
  /\ k' = res.k /\ r' = res.r /\ s' = res.s /\ z' = res.z
  /\ outcome' = res.outcome /\ outSig' = res.outSig /\ outRS' = res.outRS

\* the object at rest: no call is being reported
Idle == op \in {"new", "setPrivate", "setPublic", "idle"}

\* the call just made returned a signature, which the caller may hand to verification
Signed == op = "signWithMessageHash" /\ outcome = "return"

setPrivate(pp, qq, gg, yy, xx) ==
  /\ isPrivate' = True
  /\ p' = pp /\ q' = qq /\ g' = gg /\ y' = yy /\ x' = xx
  /\ Report("setPrivate", <<>>, <<>>, "none", FALSE, NoLocals)
  /\ UNCHANGED isPublic

setPublic(pp, qq, gg, yy) ==
  /\ isPublic' = True
  /\ p' = pp /\ q' = qq /\ g' = gg /\ y' = yy /\ x' = Null
  /\ Report("setPublic", <<>>, <<>>, "none", FALSE, NoLocals)
  /\ UNCHANGED isPrivate

\* signWithMessageHash that wipes x once the signature is made
signWithMessageHash_wiping(d, kk) ==
  /\ Report("signWithMessageHash", d, <<>>, "none", FALSE, SignResult(p, q, g, x, d, kk))
  /\ x' = Null
  /\ UNCHANGED <<p, q, g, y, isPrivate, isPublic>>

\* signWithMessageHash(sHashHex), kk being the random number drawn
signWithMessageHash(d, kk) ==
  /\ Report("signWithMessageHash", d, <<>>, "none", FALSE, SignResult(p, q, g, x, d, kk))
  /\ UNCHANGED <<p, q, g, y, x, isPrivate, isPublic>>

\* verifyWithMessageHash that marks the object as a public key
verifyWithMessageHash_marking(d, h, kind, own) ==
  /\ Report("verifyWithMessageHash", d, h, kind, own, VerifyResult(p, q, g, y, d, h))
  /\ isPublic' = True
  /\ UNCHANGED <<p, q, g, y, x, isPrivate>>

\* verifyWithMessageHash(sHashHex, hSigVal)
verifyWithMessageHash(d, h, kind, own) ==
  /\ Report("verifyWithMessageHash", d, h, kind, own, VerifyResult(p, q, g, y, d, h))
  /\ UNCHANGED <<p, q, g, y, x, isPrivate, isPublic>>

\* a call of parseASN1Signature(hSigVal) on the object
CallParseASN1Signature(h, kind) ==
  /\ Report("parseASN1Signature", <<>>, h, kind, FALSE, ParseResult(h))
  /\ UNCHANGED <<p, q, g, y, x, isPrivate, isPublic>>

\* the caller takes what the call returned or threw; a call that does not
\* return leaves nothing to run after it
Forget ==
  /\ ~Idle /\ outcome # Diverges
  /\ Report("idle", <<>>, <<>>, "none", FALSE, NoLocals)
  /\ UNCHANGED <<p, q, g, y, x, isPrivate, isPublic>>

\* the random numbers a call of signWithMessageHash can draw on this object
Draws == IF q = Null THEN {Null} ELSE DrawK(q)

SetPrivate == Idle /\ \E kp \in PrivateKeys : setPrivate(kp[1], kp[2], kp[3], kp[4], kp[5])
SetPublic  == Idle /\ \E kp \in PrivateKeys : setPublic(kp[1], kp[2], kp[3], kp[4])
Sign       == Idle /\ \E d \in Digests : \E kk \in Draws : signWithMessageHash(d, kk)
Verify     == Idle /\ \E d \in Digests : \E c \in Containers(q) : verifyWithMessageHash(d, c.hex, c.kind, FALSE)
VerifyOwn  == Signed /\ verifyWithMessageHash(sHashHex, outSig, Valid, TRUE)
Parse      == Idle /\ \E c \in Containers(q) : CallParseASN1Signature(c.hex, c.kind)

Next == SetPrivate \/ SetPublic \/ Sign \/ Verify \/ VerifyOwn \/ Parse \/ Forget

Spec == Init /\ [][Next]_vars

\* ------------------------------------------------- the codec on its own
\* integers the codec is tried on: one byte, one byte behind a 00, two bytes,
\* two bytes behind a 00, three bytes
CodecInts == (1..CodecMax) \cup {255, 256, 4095, 4096, 32767, 32768, 65535, 65536}

InitCodec ==
  /\ p = Null /\ q = Null /\ g = Null /\ y = Null /\ x = Null
  /\ isPrivate = Undefined /\ isPublic = Undefined
  /\ op = "codec"
  /\ sHashHex = <<>> /\ hSigVal = <<>> /\ sigKind = "none" /\ fresh = FALSE
  /\ k = Null /\ r \in CodecInts /\ s \in CodecInts /\ z = Null
  /\ outcome = "none" /\ outSig = <<>> /\ outRS = <<>>

\* step 5 of signWithMessageHash applied to (r, s)
CodecEncode ==
  /\ op = "codec"
  /\ op' = "encoded"
  /\ outSig' = EncodeSignature(r, s)
  /\ UNCHANGED <<p, q, g, y, x, isPrivate, isPublic,
                 sHashHex, hSigVal, sigKind, fresh, k, r, s, z, outcome, outRS>>

\* what parseASN1Signature left to see, beside the pair that was encoded
Decoded(res) ==
  /\ outcome' = res.outcome
  /\ outRS' = res.outRS

\* parseASN1Signature applied to the encoding
CodecDecode ==
  /\ op = "encoded"
  /\ op' = "decoded"
  /\ hSigVal' = outSig /\ sigKind' = Valid
  /\ Decoded(ParseResult(outSig))
  /\ UNCHANGED <<p, q, g, y, x, isPrivate, isPublic,
                 sHashHex, fresh, k, r, s, z, outSig>>

NextCodec == CodecEncode \/ CodecDecode

SpecCodec == InitCodec /\ [][NextCodec]_vars

\* ------------------------------------------------------------------ claims
Calls == {"signWithMessageHash", "verifyWithMessageHash", "parseASN1Signature"}
Setters == {"setPrivate", "setPublic"}

\* C1: verifying, with the same digest and on the same key, the signature that
\* signWithMessageHash just returned gives true.
C1_SignThenVerify ==
  (op = "verifyWithMessageHash" /\ fresh) => outcome = "true"

\* C2: verification never returns true for a signature whose r or s is 0 or q.
C2_RangeRejected ==
  (op = "verifyWithMessageHash" /\ q # Null /\ r # Null /\ (r \in {0, q} \/ s \in {0, q}))
    => outcome # "true"

\* C3: a container that is not exactly a sequence of two integers makes
\* parseASN1Signature, and so verifyWithMessageHash, throw the malformed-signature
\* error.
C3_MalformedRejected ==
  (op \in {"parseASN1Signature", "verifyWithMessageHash"} /\ sigKind \notin {Valid, "none"})
    => outcome = Malformed

\* C4: parseASN1Signature applied to the signer's encoding of (r, s) returns
\* exactly [r, s], in that order.
C4_RoundTrip ==
  (op = "decoded") => (outcome = "return" /\ outRS = <<r, s>>)

\* the round trip of a pair whose two encodings both start with an inserted 00
C4_Witness ==
  op = "decoded" /\ r = 255 /\ s = 128 /\ outRS = <<255, 128>>
    /\ SubSeq(outSig, 5, 12) = <<0, 2, 0, 2, 0, 0, 15, 15>>

\* C5: every signature signWithMessageHash returns has 0 < r < q and 0 < s < q.
C5_SignInRange ==
  Signed => (0 < r /\ r < q /\ 0 < s /\ s < q)

\* C6: once the key is set, no later call changes p, q, g, y or x.
C6_SetOnce ==
  [][(op # "new") => UNCHANGED <<p, q, g, y, x>>]_vars

\* C6, amended: only setPrivate and setPublic change p, q, g, y or x; every other
\* call leaves them as the last setter left them.
C6_OnlySettersWrite ==
  [][(op' \notin Setters) => UNCHANGED <<p, q, g, y, x>>]_vars

\* a signature made and verified on a private key that was set before
C6_Witness ==
  op = "verifyWithMessageHash" /\ fresh /\ outcome = "true" /\ x # Null /\ isPrivate = True

\* C7: an initialised key is marked private exactly when x is present, public
\* exactly when x is absent, and never both.
C7_ExactlyOne ==
  (op # "new") =>
    /\ (isPrivate = True) <=> (x # Null)
    /\ (isPublic = True) <=> (x = Null)
    /\ ~(isPrivate = True /\ isPublic = True)

\* C8: every k drawn lies in [1, q-1], and every integer of [1, q-1] can be drawn.
C8_FullRange ==
  /\ (op = "signWithMessageHash" /\ k # Null) => (1 <= k /\ k <= q - 1)
  /\ (q # Null) => (Draws = 1..(q - 1))

\* the leftmost n bits of a hex string, as a big-endian unsigned integer
LeftmostBits(h, n) == parseBigInt16(h) \div Pow2(4 * Len(h) - n)

\* C9: signing and verification derive z as the leftmost min(N, outlen) bits of
\* the digest, N being the bit length of q and outlen that of the digest.
C9_LeftmostBits ==
  (op \in {"signWithMessageHash", "verifyWithMessageHash"} /\ z # Null)
    => z = LeftmostBits(sHashHex, Min(bitLength(q), 4 * Len(sHashHex)))

\* C10: signWithMessageHash, verifyWithMessageHash and parseASN1Signature leave
\* p, q, g, y, x, isPrivate and isPublic as they were, whether they return or
\* throw, so that a verification made again on the object gives the outcome it gave.
C10_NoSideEffects ==
  /\ [][(op' \in Calls) => UNCHANGED <<p, q, g, y, x, isPrivate, isPublic>>]_vars
  /\ [](op = "verifyWithMessageHash"
          => outcome = VerifyResult(p, q, g, y, sHashHex, hSigVal).outcome)

\* a verification that threw, on a key that only setPrivate has marked
C10_Witness ==
  op = "verifyWithMessageHash" /\ outcome = Invalid
    /\ isPrivate = True /\ isPublic = Undefined

====
